---- MODULE Spec2Model ----
(***************************************************************************)
(* AgroNova Smart Farming Assistant (src/app.py).                          *)
(*                                                                         *)
(* Server side: generate_system_prompt, get_ai_response and the /chat      *)
(* route.  Client side: the page script of HTML_TEMPLATE (selectedFeature, *)
(* chatHistory, isLoading, sendMessage and its event listeners).           *)
(*                                                                         *)
(* Text is a sequence of tokens; SP is a whitespace character.  A message  *)
(* typed by the user is a sequence over {SP, "a"}; the long literals of    *)
(* the source (base prompt, focus fragments, fallback template) are one    *)
(* token per fixed piece, so that concatenation and containment are real.  *)
(***************************************************************************)
EXTENDS Integers, Sequences, FiniteSets, TLC

VARIABLES
    selectedFeature,  \* client: let selectedFeature
    chatHistory,      \* client: let chatHistory
    isLoading,        \* client: let isLoading
    sendDisabled,     \* client: #send-btn .disabled
    chatMessages,     \* client: the bubbles of the #chat-messages container
    requests,         \* POST /chat requests sent and not yet handled by the server
    replies,          \* /chat replies produced and not yet received by the page
    srv,              \* what the last run of the /chat route did
    turn              \* bookkeeping of the last sendMessage run that passed its guards

vars == <<selectedFeature, chatHistory, isLoading, sendDisabled, chatMessages,
          requests, replies, srv, turn>>

-----------------------------------------------------------------------------
(* Bounds *)

MaxHist == 7        \* longest history a direct POST /chat carries
MaxTurns == 3       \* accepted turns of one page session
MaxLiveTurns == 2   \* the same, in the specification with fairness

-----------------------------------------------------------------------------
(* Text *)

SP == " "

TypedTexts == {<<>>, <<SP>>, <<"a">>, <<SP, "a">>}

SamplePromptTexts == {<<"p">>}

ModelReplies == {<<"r">>}

ErrorDetails == {<<"e1">>, <<"e2">>}

RECURSIVE LStrip(_)
LStrip(s) == IF s # <<>> /\ Head(s) = SP THEN LStrip(Tail(s)) ELSE s

RECURSIVE RStrip(_)
RStrip(s) ==
    IF s # <<>> /\ s[Len(s)] = SP THEN RStrip(SubSeq(s, 1, Len(s) - 1)) ELSE s

\* String.prototype.trim
Trim(s) == RStrip(LStrip(s))

\* Python `not s` / JavaScript `!s` on a string: only the empty string is falsy
Falsy(s) == s = <<>>

Contains(text, piece) ==
    \E i \in 0..(Len(text) - Len(piece)) :
        SubSeq(text, i + 1, i + Len(piece)) = piece

-----------------------------------------------------------------------------
(* Topic registry and system prompt *)

None == "<None>"                 \* Python None / JSON null
UnhashableFeature == "<list>"    \* a non-empty JSON array or object as "feature"

FeatureIds ==
    {"crop-recommendation", "pest-disease", "weather-alerts",
     "soil-fertilizer", "sustainable-farming"}

base_prompt == <<"You are AgroNova">>

feature_contexts == [f \in FeatureIds |-> <<"Focus on", f>>]

\* `feature and ...`: None and "" are falsy
FeatureTruthy(feature) == feature # None /\ feature # ""

\* `feature in feature_contexts` hashes the key: TypeError on a list or dict
PromptRaises(feature) == feature = UnhashableFeature

PromptAppendsUnknown(feature) ==
    IF FeatureTruthy(feature)
    THEN base_prompt \o <<"Focus on", feature>>
    ELSE base_prompt

generate_system_prompt(feature) ==
    IF FeatureTruthy(feature) /\ feature \in DOMAIN feature_contexts
    THEN base_prompt \o feature_contexts[feature]
    ELSE base_prompt

-----------------------------------------------------------------------------
(* get_ai_response *)

ContextWindow == 6

Acknowledgment == <<"I understand. I'm AgroNova">>

Min(a, b) == IF a < b THEN a ELSE b
Max(a, b) == IF a > b THEN a ELSE b

SliceHead(h, k) == SubSeq(h, 1, Min(Len(h), k))

\* Python h[-k:] for k > 0
SliceLast(h, k) == SubSeq(h, Max(Len(h) - k, 0) + 1, Len(h))

\* role = "user" if msg["role"] == "user" else "model"
MapRole(msg) ==
    [role |-> IF msg.role = "user" THEN "user" ELSE "model",
     parts |-> <<msg.content>>]

PrimingHistoryFirst(feature) ==
    <<[role |-> "model", parts |-> <<Acknowledgment>>],
      [role |-> "user", parts |-> <<generate_system_prompt(feature)>>]>>

Priming(feature) ==
    <<[role |-> "user", parts |-> <<generate_system_prompt(feature)>>],
      [role |-> "model", parts |-> <<Acknowledgment>>]>>

WindowHead(chat_history) == SliceHead(chat_history, ContextWindow)

\* chat_history[-6:]
Window(chat_history) == SliceLast(chat_history, ContextWindow)

\* the list `conversation` handed to model.start_chat(history=...)
Conversation(feature, chat_history) ==
    LET w == Window(chat_history)
    IN  Priming(feature) \o [i \in 1..Len(w) |-> MapRole(w[i])]

\* the text returned by the except branch, error_msg aside
FallbackText(detail) ==
    <<"**Error Processing Request**",
      "- API key not configured properly",
      "- Network connectivity issues",
      "- API rate limits",
      "**Please ensure:**",
      "Error details: ">> \o detail

UnhashableDetail == <<"unhashable type: 'list'">>

\* what the Gemini service does with one chat.send_message
RemoteOutcomes ==
    [ok : {TRUE}, text : ModelReplies] \cup [ok : {FALSE}, text : ErrorDetails]

Retrying(user_message, feature, chat_history, remote) ==
    IF PromptRaises(feature)
    THEN [calls |-> 0, submitted |-> <<>>, raised |-> FALSE,
          text |-> FallbackText(UnhashableDetail)]
    ELSE [calls |-> IF remote.ok THEN 1 ELSE 2,
          submitted |-> Conversation(feature, chat_history)
                            \o <<[role |-> "user", parts |-> <<user_message>>]>>,
          raised |-> FALSE,
          text |-> IF remote.ok THEN remote.text ELSE FallbackText(remote.text)]

Propagating(user_message, feature, chat_history, remote) ==
    IF PromptRaises(feature)
    THEN [calls |-> 0, submitted |-> <<>>, raised |-> TRUE, text |-> UnhashableDetail]
    ELSE [calls |-> 1,
          submitted |-> Conversation(feature, chat_history)
                            \o <<[role |-> "user", parts |-> <<user_message>>]>>,
          raised |-> ~remote.ok,
          text |-> remote.text]

\* calls: chat.send_message calls made; submitted: the history given to
\* start_chat followed by the message sent; raised: an exception left the function
get_ai_response(user_message, feature, chat_history, remote) ==
    IF PromptRaises(feature)
    THEN [calls |-> 0, submitted |-> <<>>, raised |-> FALSE,
          text |-> FallbackText(UnhashableDetail)]
    ELSE [calls |-> 1,
          submitted |-> Conversation(feature, chat_history)
                            \o <<[role |-> "user", parts |-> <<user_message>>]>>,
          raised |-> FALSE,
          text |-> IF remote.ok THEN remote.text ELSE FallbackText(remote.text)]

-----------------------------------------------------------------------------
(* The /chat route *)

NoMessageProvided == <<"No message provided">>

NotADictDetail == <<"object has no attribute 'get'">>

ChatOutcome(status, kind, text, calls, submitted) ==
    [status |-> status, kind |-> kind, text |-> text,
     calls |-> calls, submitted |-> submitted]

\* req.wellFormed: the body is a JSON object, so that data.get works
chat(req, remote) ==
    IF ~req.wellFormed
    THEN ChatOutcome(500, "error", NotADictDetail, 0, <<>>)
    ELSE IF Falsy(req.message)
    THEN ChatOutcome(400, "error", NoMessageProvided, 0, <<>>)
    ELSE LET r == get_ai_response(req.message, req.feature, req.history, remote)
         IN  IF r.raised
             THEN ChatOutcome(500, "error", r.text, r.calls, r.submitted)
             ELSE ChatOutcome(200, "response", r.text, r.calls, r.submitted)

NoRun == [handled |-> FALSE]

\* as ChatRoute, with `conversation` kept in the module between requests
ChatRouteSharedConversation ==
    /\ requests # <<>>
    /\ \E remote \in RemoteOutcomes :
          LET req == Head(requests)
              one == chat(req, remote)
              kept == IF srv.handled THEN srv.out.submitted ELSE <<>>
              out == [one EXCEPT !.submitted = kept \o one.submitted]
          IN  /\ srv' = [handled |-> TRUE, req |-> req, remoteOk |-> remote.ok,
                         detail |-> remote.text, out |-> out]
              /\ replies' = Append(replies, [kind |-> out.kind, text |-> out.text])
              /\ turn' = [turn EXCEPT !.calls = @ + out.calls]
    /\ requests' = Tail(requests)
    /\ UNCHANGED <<selectedFeature, chatHistory, isLoading, sendDisabled, chatMessages>>

\* the server takes the oldest request on the wire and answers it
ChatRoute ==
    /\ requests # <<>>
    /\ \E remote \in RemoteOutcomes :
          LET req == Head(requests)
              out == chat(req, remote)
          IN  /\ srv' = [handled |-> TRUE, req |-> req, remoteOk |-> remote.ok,
                         detail |-> remote.text, out |-> out]
              /\ replies' = Append(replies, [kind |-> out.kind, text |-> out.text])
              /\ turn' = [turn EXCEPT !.calls = @ + out.calls]
    /\ requests' = Tail(requests)
    /\ UNCHANGED <<selectedFeature, chatHistory, isLoading, sendDisabled, chatMessages>>

-----------------------------------------------------------------------------
(* The page script *)

Welcome == <<"Welcome to AgroNova Smart Farming Assistant">>

WelcomeBubble == [role |-> "assistant", content |-> Welcome]

Msg(role, content) == [role |-> role, content |-> content]

ErrorPrefix == "Error: "

InitialHistorySeeded == <<WelcomeBubble>>

\* let chatHistory = [];
InitialHistory == <<>>

\* the markup of #chat-messages
InitialMessages == <<WelcomeBubble>>

NoTurn ==
    [n |-> 0, startLen |-> 0, calls |-> 0, end |-> "none", discarded |-> 0,
     cap |-> MaxTurns]

PageState ==
    /\ selectedFeature = None
    /\ chatHistory = InitialHistory
    /\ isLoading = FALSE
    /\ sendDisabled = FALSE
    /\ chatMessages = InitialMessages

\* selectFeature(featureId, element): the cards are built from FEATURES
selectFeature(featureId) ==
    /\ selectedFeature' = featureId
    /\ UNCHANGED <<chatHistory, isLoading, sendDisabled, chatMessages,
                   requests, replies, srv, turn>>

\* the cards the user clicks
CardInputs == {"pest-disease", "soil-fertilizer"}

SelectFeature == \E f \in CardInputs : selectFeature(f)

\* the click listener of #clear-feature
ClearFeature ==
    /\ selectedFeature' = None
    /\ UNCHANGED <<chatHistory, isLoading, sendDisabled, chatMessages,
                   requests, replies, srv, turn>>

\* const message = customMessage || input.value.trim();
MessageOf(customMessage, typed) ==
    IF customMessage # None /\ ~Falsy(customMessage) THEN customMessage ELSE Trim(typed)

\* the part of sendMessage up to the await of fetch
SendBody(message) ==
    /\ chatMessages' = Append(chatMessages, Msg("user", message))
    /\ chatHistory' = Append(chatHistory, Msg("user", message))
    /\ isLoading' = TRUE
    /\ sendDisabled' = TRUE
    /\ requests' = Append(requests,
                          [wellFormed |-> TRUE, message |-> message,
                           feature |-> selectedFeature,
                           history |-> Append(chatHistory, Msg("user", message))])
    /\ turn' = [n |-> turn.n + 1, startLen |-> Len(chatHistory), calls |-> 0,
                end |-> "pending", discarded |-> 0, cap |-> turn.cap]
    /\ UNCHANGED <<selectedFeature, replies, srv>>

sendMessageNoGuard(customMessage, typed) ==
    LET message == MessageOf(customMessage, typed)
    IN  IF Falsy(message) \/ turn.n >= turn.cap
        THEN UNCHANGED vars
        ELSE SendBody(message)

\* typed: the value of #user-input when the handler runs
sendMessage(customMessage, typed) ==
    LET message == MessageOf(customMessage, typed)
    IN  IF isLoading \/ Falsy(message) \/ turn.n >= turn.cap
        THEN UNCHANGED vars
        ELSE SendBody(message)

ClickSend == \E typed \in TypedTexts : sendMessage(None, typed)

KeydownEnter == \E typed \in TypedTexts : sendMessage(None, typed)

ClickSamplePrompt ==
    \E prompt \in SamplePromptTexts, typed \in TypedTexts : sendMessage(prompt, typed)

AfterTurnStillLoading(how) ==
    /\ UNCHANGED <<isLoading, sendDisabled>>
    /\ turn' = [turn EXCEPT !.end = how]
    /\ UNCHANGED <<selectedFeature, srv>>

\* isLoading = false; send-btn enabled: the two lines after try/catch
AfterTurn(how) ==
    /\ isLoading' = FALSE
    /\ sendDisabled' = FALSE
    /\ turn' = [turn EXCEPT !.end = how]
    /\ UNCHANGED <<selectedFeature, srv>>

ReceiveOverwrite(data) ==
    /\ chatMessages' = Append(chatMessages, Msg("assistant", data.text))
    /\ chatHistory' = [chatHistory EXCEPT ![Len(chatHistory)] = Msg("assistant", data.text)]
    /\ AfterTurn("response")

ReceiveNoPush(data) ==
    /\ chatMessages' = Append(chatMessages, Msg("assistant", data.text))
    /\ UNCHANGED chatHistory
    /\ AfterTurn("response")

\* sendMessage after `await response.json()`, the reply parsed as data
Receive(data) ==
    IF data.kind = "error"
    THEN /\ chatMessages' = Append(chatMessages,
                                   Msg("assistant", <<ErrorPrefix>> \o data.text))
         /\ UNCHANGED chatHistory
         /\ AfterTurn("error")
    ELSE /\ chatMessages' = Append(chatMessages, Msg("assistant", data.text))
         /\ chatHistory' = Append(chatHistory, Msg("assistant", data.text))
         /\ AfterTurn("response")

ReceiveReply ==
    /\ replies # <<>>
    /\ Receive(Head(replies))
    /\ replies' = Tail(replies)
    /\ UNCHANGED requests

FetchErrorMessage == <<"Failed to fetch">>

\* the catch branch of sendMessage: fetch rejects (the request never reaches the
\* server) or response.json() rejects (the reply cannot be read)
FetchFails ==
    /\ \/ /\ requests # <<>>
          /\ requests' = Tail(requests)
          /\ UNCHANGED replies
       \/ /\ requests = <<>>
          /\ replies # <<>>
          /\ replies' = Tail(replies)
          /\ UNCHANGED requests
    /\ chatMessages' = Append(chatMessages,
                              Msg("assistant", <<ErrorPrefix>> \o FetchErrorMessage))
    /\ UNCHANGED chatHistory
    /\ AfterTurn("fetchfail")

\* the page is loaded again: the script runs from its first line and the
\* fetches of the page that is left are aborted
Reload ==
    /\ turn.n > 0
    /\ selectedFeature' = None
    /\ chatHistory' = InitialHistory
    /\ isLoading' = FALSE
    /\ sendDisabled' = FALSE
    /\ chatMessages' = InitialMessages
    /\ requests' = <<>>
    /\ replies' = <<>>
    /\ turn' = [NoTurn EXCEPT !.end = "loaded", !.discarded = Len(chatHistory),
                                !.cap = turn.cap]
    /\ srv' = NoRun

-----------------------------------------------------------------------------
(* Specifications *)

Init ==
    /\ PageState
    /\ requests = <<>>
    /\ replies = <<>>
    /\ srv = NoRun
    /\ turn = NoTurn

Next ==
    \/ SelectFeature
    \/ ClearFeature
    \/ ClickSend
    \/ KeydownEnter
    \/ ClickSamplePrompt
    \/ ChatRoute
    \/ ReceiveReply
    \/ FetchFails
    \/ Reload

Spec == Init /\ [][Next]_vars

\* A request that was sent is handled by the server, and the continuation of
\* sendMessage runs once the reply is there: every fetch settles.
InitLive ==
    /\ PageState
    /\ requests = <<>>
    /\ replies = <<>>
    /\ srv = NoRun
    /\ turn = [NoTurn EXCEPT !.cap = MaxLiveTurns]

SpecLive == InitLive /\ [][Next]_vars /\ WF_vars(ChatRoute) /\ WF_vars(ReceiveReply)

\* A POST /chat from any HTTP client
RoleInputs == {"user", "assistant", "system"}

ContentOf(role) == IF role = "user" THEN <<"a">> ELSE <<"r">>

RECURSIVE Histories(_)
Histories(n) ==
    IF n = 0 THEN {<<>>}
    ELSE LET shorter == Histories(n - 1)
         IN  shorter \cup
             {Append(h, Msg(r, ContentOf(r))) : h \in {x \in shorter : Len(x) = n - 1},
                                                 r \in RoleInputs}

MessageInputs == {<<>>, <<SP>>, <<"a">>}

FeatureInputs == {None, "", "pest-disease", "soil-fertilizer", "hydroponics",
                  UnhashableFeature}

DirectRequests ==
    [wellFormed : {TRUE}, message : MessageInputs, feature : FeatureInputs,
     history : Histories(MaxHist)]
    \cup {[wellFormed |-> FALSE, message |-> <<>>, feature |-> None, history |-> <<>>]}

InitChat ==
    /\ PageState
    /\ \E req \in DirectRequests : requests = <<req>>
    /\ replies = <<>>
    /\ srv = NoRun
    /\ turn = NoTurn

SpecChat == InitChat /\ [][ChatRoute]_vars

\* The same accepted request posted twice, by the same or by another client
RepeatedRequests ==
    {req \in DirectRequests : req.wellFormed /\ ~Falsy(Trim(req.message))}

InitTwice ==
    /\ PageState
    /\ \E req \in RepeatedRequests : requests = <<req, req>>
    /\ replies = <<>>
    /\ srv = NoRun
    /\ turn = NoTurn

SpecTwice == InitTwice /\ [][ChatRoute]_vars

-----------------------------------------------------------------------------
(* Properties of the /chat route and of get_ai_response (SpecChat) *)

Called == srv.handled /\ srv.out.calls > 0

Accepted == srv.handled /\ srv.req.wellFormed /\ ~Falsy(srv.req.message)

\* C1: the entries between the priming pair and the new message are the last 6
\* entries of the history passed in (all of them when there are fewer than 6), in
\* their order, with nothing padded, dropped from the tail or moved.
C1_WindowIsLastSix ==
    Called =>
        LET h == srv.req.history
            n == Len(h)
            k == IF n >= 6 THEN 6 ELSE n
            sub == srv.out.submitted
        IN  /\ Len(sub) = 2 + k + 1
            /\ \A i \in 1..k :
                  /\ sub[2 + i].parts = <<h[n - k + i].content>>
                  /\ sub[2 + i].role = IF h[n - k + i].role = "user" THEN "user" ELSE "model"

C1_Witness ==
    /\ Called
    /\ Len(srv.req.history) = 7
    /\ srv.req.history[1].role # srv.req.history[7].role
    /\ Len(srv.out.submitted) = 9

\* C2: whatever the topic and the history, entry 1 is the user-role framing,
\* entry 2 the fixed model-role acknowledgment, and the history entries and the
\* new message all come after them.
C2_PrimingPairFirst ==
    Called =>
        LET sub == srv.out.submitted
        IN  /\ Len(sub) >= 3
            /\ sub[1].role = "user"
            /\ Contains(sub[1].parts[1], base_prompt)
            /\ sub[2] = [role |-> "model", parts |-> <<Acknowledgment>>]
            /\ sub[Len(sub)] = [role |-> "user", parts |-> <<srv.req.message>>]
            /\ \A i \in 3..Len(sub) :
                  /\ sub[i].parts # <<Acknowledgment>>
                  /\ ~Contains(sub[i].parts[1], base_prompt)

C2_Witness ==
    /\ Called
    /\ srv.req.feature = "hydroponics"
    /\ Len(srv.req.history) = 7
    /\ srv.out.submitted[2].role = "model"

\* C3: a message that is empty or only whitespace never leads to a call to the
\* model, at the /chat route too.
C3_NoCallOnBlankMessage ==
    (srv.handled /\ srv.req.wellFormed /\ Falsy(Trim(srv.req.message)))
        => srv.out.calls = 0

\* C6: for a non-empty message the route answers 200 with a response text and
\* nothing is raised: a failure of the remote call or of the assembly of the
\* context comes back as the fallback text holding the error detail; and every
\* request, whatever its body, gets a reply.
C6_NeverRaises ==
    /\ srv.handled => Len(replies) = 1
    /\ Accepted =>
          /\ srv.out.status = 200
          /\ srv.out.kind = "response"
          /\ replies[1] = [kind |-> "response", text |-> srv.out.text]
          /\ (srv.out.calls = 1 /\ srv.remoteOk) => srv.out.text = srv.detail
          /\ (srv.out.calls = 1 /\ ~srv.remoteOk) =>
                /\ Contains(srv.out.text, <<"**Error Processing Request**">>)
                /\ Contains(srv.out.text, <<"Error details: ">> \o srv.detail)
          /\ srv.out.calls = 0 =>
                Contains(srv.out.text, <<"Error details: ">> \o UnhashableDetail)

C6_Witness ==
    /\ Accepted
    /\ srv.out.calls = 1
    /\ ~srv.remoteOk
    /\ srv.out.status = 200
    /\ Len(srv.req.history) = 7

\* C10: a topic id that is not registered never fails and gives the framing and
\* the submitted sequence of a call without topic; a registered id gives the
\* base framing followed by the instruction fragment of that topic.
C10_UnknownTopicIsNoTopic ==
    (Accepted /\ srv.req.feature # UnhashableFeature) =>
        LET f == srv.req.feature
            remote == [ok |-> srv.remoteOk, text |-> srv.detail]
            plain == get_ai_response(srv.req.message, None, srv.req.history, remote)
        IN  /\ srv.out.status = 200
            /\ srv.out.calls = 1
            /\ f \notin FeatureIds =>
                  /\ srv.out.submitted[1].parts = <<base_prompt>>
                  /\ srv.out.submitted = plain.submitted
                  /\ srv.out.text = plain.text
            /\ f \in FeatureIds =>
                  /\ srv.out.submitted[1].parts = <<base_prompt \o <<"Focus on", f>>>>
                  /\ srv.out.submitted # plain.submitted

C10_Witness ==
    /\ Accepted
    /\ srv.req.feature = "hydroponics"
    /\ srv.out.calls = 1
    /\ srv.out.submitted[1].parts = <<base_prompt>>

-----------------------------------------------------------------------------
(* Properties of a page session (Spec) *)

InFlight == Len(requests) + Len(replies)

TurnEnded == turn.end \in {"response", "error", "fetchfail"}

\* C4: on the first turn of a session (no message exchanged before) the sequence
\* submitted to the model has exactly 3 entries, framing, acknowledgment and the
\* new message, and the new message occurs in it once.
C4_FirstTurnThreeEntries ==
    (turn.n = 1 /\ turn.startLen = 0 /\ Called) =>
        LET sub == srv.out.submitted
            new == [role |-> "user", parts |-> <<srv.req.message>>]
        IN  /\ Len(sub) = 3
            /\ Cardinality({i \in 1..Len(sub) : sub[i] = new}) = 1

\* C5 as claimed: every accepted turn that completes, failed or not, makes the
\* transcript 2 entries longer.
C5_EveryTurnAddsTwo ==
    TurnEnded => Len(chatHistory) = turn.startLen + 2

\* C5 amended: a turn answered with a response body (the fallback of a failed
\* remote call included) appends the user entry and an assistant entry, and
\* after a failed remote call that entry is the fallback text naming the three
\* causes and holding the error detail; a turn whose fetch fails or that is
\* answered with an error body appends the user entry only.
C5_TurnGrowth ==
    /\ turn.end = "response" =>
          /\ Len(chatHistory) = turn.startLen + 2
          /\ chatHistory[turn.startLen + 1].role = "user"
          /\ chatHistory[turn.startLen + 2].role = "assistant"
          /\ (Called /\ ~srv.remoteOk) =>
                LET text == chatHistory[turn.startLen + 2].content
                IN  /\ Contains(text, <<"- API key not configured properly">>)
                    /\ Contains(text, <<"- Network connectivity issues">>)
                    /\ Contains(text, <<"- API rate limits">>)
                    /\ Contains(text, srv.detail)
    /\ turn.end \in {"error", "fetchfail"} =>
          /\ Len(chatHistory) = turn.startLen + 1
          /\ chatHistory[turn.startLen + 1].role = "user"

C5_Witness ==
    /\ turn.end = "response"
    /\ turn.n = 2
    /\ Called
    /\ ~srv.remoteOk
    /\ Len(chatHistory) = turn.startLen + 2

\* C7: a turn makes at most one call to the model; a call that fails is not
\* made again and gives the fallback text at once, and a later turn that fails
\* too gets a fallback text of its own.
C7_AtMostOneCall ==
    /\ turn.calls <= 1
    /\ srv.handled =>
          /\ srv.out.calls <= 1
          /\ (srv.out.calls = 1 /\ ~srv.remoteOk) =>
                srv.out.text = FallbackText(srv.detail)
    /\ (turn.end = "response" /\ srv.handled) =>
          /\ turn.calls = 1
          /\ chatHistory[Len(chatHistory)].content = srv.out.text

C7_Witness ==
    /\ turn.n = 2
    /\ turn.end = "response"
    /\ turn.calls = 1
    /\ Len(chatHistory) = 4
    /\ chatHistory[4].content = FallbackText(<<"e2">>)
    /\ chatHistory[2].content = FallbackText(<<"e1">>)

\* C8: at most one turn of a session is in flight: while a request is on its
\* way or its reply is not yet received, isLoading is set and no other run of
\* sendMessage gets past its guards.
C8_SingleFlight ==
    /\ InFlight <= 1
    /\ isLoading <=> InFlight = 1
    /\ isLoading <=> turn.end = "pending"
    /\ sendDisabled = isLoading

C8_Witness ==
    /\ isLoading
    /\ replies # <<>>
    /\ turn.n = 2
    /\ InFlight = 1

IsPrefix(s, t) == Len(s) <= Len(t) /\ SubSeq(t, 1, Len(s)) = s

\* C11: within a page session the transcript only grows at its end: over every
\* step of a turn, a topic selection or a topic clear the old chatHistory is a
\* prefix of the new one (so, step after step, of every later one), and a step
\* that changes the selected topic leaves chatHistory as it is.
C11_AppendOnly ==
    [][Reload \/ (/\ IsPrefix(chatHistory, chatHistory')
                  /\ Len(chatHistory') <= Len(chatHistory) + 1
                  /\ (selectedFeature' # selectedFeature => chatHistory' = chatHistory))]_vars

C11_Witness ==
    /\ Len(chatHistory) >= 4
    /\ selectedFeature = "pest-disease"
    /\ srv.handled
    /\ srv.req.feature = None
    /\ turn.end = "response"

\* C13: in every sequence submitted during a session each windowed history
\* entry has role user when its transcript role is user and role model
\* otherwise, and adjacent entries alternate between user and model from the
\* priming pair to the final new user message.
C13_RolesAlternate ==
    Called =>
        LET sub == srv.out.submitted
            w == SliceLast(srv.req.history, 6)
        IN  /\ \A i \in 1..Len(w) :
                  sub[2 + i].role = IF w[i].role = "user" THEN "user" ELSE "model"
            /\ \A i \in 1..(Len(sub) - 1) : sub[i].role # sub[i + 1].role
            /\ sub[Len(sub)].role = "user"

\* C14: a turn that sets isLoading and disables the send control clears both
\* again, whether /chat answers with a response, with an error body, or the
\* fetch fails, so that a later sendMessage gets past its isLoading guard.
C14_LoadingClears ==
    (isLoading /\ sendDisabled) ~> (~isLoading /\ ~sendDisabled /\ turn.end # "pending")

C14_Witness ==
    /\ turn.n = 2
    /\ turn.end = "fetchfail"
    /\ ~isLoading
    /\ ~sendDisabled
    /\ Len(chatHistory) = 3
    /\ chatHistory[2].role = "assistant"

-----------------------------------------------------------------------------
(* Properties of two runs of the /chat route on the same request (SpecTwice) *)

====
